---- MODULE Spec2Model ----
(***************************************************************************)
(* Learner-progress core of the Ky'Orda application: the LearningAnalytics *)
(* class (event log, per-concept performance aggregates, learner profile,  *)
(* recommendations), the navigation gate of the KyOrdaApp component, its   *)
(* chat, speech and feedback requests, and the useTextToSpeech hook.       *)
(*                                                                         *)
(* JavaScript numbers are modelled as exact fractions [n, d] with d >= 0:  *)
(* d > 0 is the finite value n/d (kept in lowest terms), d = 0 /\ n = 0 is *)
(* NaN and d = 0 /\ n > 0 is +Infinity.  Every finite value the model      *)
(* compares with a threshold is a quotient of small integers, for which    *)
(* the correctly rounded double compares with 0.5, 0.8, 2, 4, 60000 and    *)
(* 180000 exactly as the fraction does.                                    *)
(***************************************************************************)
EXTENDS Integers, Sequences, FiniteSets, TLC

VARIABLES
    analytics,              \* the LearningAnalytics instance: events, conceptPerformance, learnerProfile
    recommendations,        \* value returned by the latest getRecommendations() call
    currentScreen,          \* 'welcome' | 'learning' | 'complete'
    currentModule,          \* index into modules
    currentConcept,         \* index into modules[currentModule].concepts
    confidenceLevel,        \* 1..5
    knowledgeCheckAnswers,  \* check id -> chosen option index, for the answered checks
    showAdaptiveHelp,       \* boolean
    adaptiveHelpContent,    \* NoHelp (null) or an AdaptiveHelpContent record
    chatHistory,            \* sequence of chat messages (their roles)
    isAiThinking,           \* a chat request is outstanding
    progress,               \* the Progress record
    chatPending,            \* number of /api/chat fetches of handleAiChat not yet settled
    voiceEnabled,           \* boolean
    voiceLoading,           \* boolean: speakText is between its fetch and its finally
    isSpeaking,             \* boolean shown by the avatar
    audioRef,               \* audioRef.current: NoAudio or an Audio element
    playing,                \* the Audio elements that are playing
    ttsPending,             \* the /api/tts fetches of speakText not yet settled
    ttsIssued,              \* number of /api/tts fetches speakText has issued
    feedbackSubmitting,     \* boolean
    feedbackSuccess,        \* boolean
    feedbackPending,        \* number of /api/feedback fetches not yet settled
    tts,                    \* a useTextToSpeech() hook instance
    chatHook,               \* a useChat() hook instance
    api                     \* the api/feedback.ts module: its store, its environment, its latest response

speechVars == <<voiceEnabled, voiceLoading, isSpeaking, audioRef, playing, ttsPending, ttsIssued>>
feedbackVars == <<feedbackSubmitting, feedbackSuccess, feedbackPending>>
extVars == <<chatHook, api>>
ioVars == <<chatPending, speechVars, feedbackVars, tts, extVars>>

vars == <<analytics, recommendations, currentScreen, currentModule, currentConcept,
          confidenceLevel, knowledgeCheckAnswers, showAdaptiveHelp,
          adaptiveHelpContent, chatHistory, isAiThinking, progress, ioVars>>

appVars == <<currentScreen, currentModule, currentConcept, confidenceLevel,
             knowledgeCheckAnswers, showAdaptiveHelp, adaptiveHelpContent,
             chatHistory, isAiThinking, progress, ioVars>>

----------------------------------------------------------------------------
(* Bounds *)

MaxEvents == 3          \* length of the event log in the class-level specification
MaxLog == 6             \* length of the event log in the event-log specification
MaxAttempts == 2        \* trackConceptAttempt calls in the class-level specification
MaxAppEvents == 6       \* length of the event log in the application specification
MaxSpeech == 2          \* /api/tts fetches issued by speakText
MaxIOChats == 2         \* chat messages sent in the chat specification
MaxFeedback == 1        \* /api/feedback fetches outstanding at a time
MaxStored == 2          \* feedback entries in the store of api/feedback.ts
MaxOutstanding == 2     \* /api/chat fetches of a useChat instance outstanding at a time
MaxChats == 1           \* chat messages sent in the application specification

----------------------------------------------------------------------------
(* JavaScript number arithmetic on fractions *)

RECURSIVE GCD(_, _)
GCD(a, b) == IF b = 0 THEN a ELSE GCD(b, a % b)

NaN == [n |-> 0, d |-> 0]
Infinity == [n |-> 1, d |-> 0]
IsNaN(x) == x.d = 0 /\ x.n = 0
IsInf(x) == x.d = 0 /\ x.n > 0
IsFinite(x) == x.d > 0

\* a / b for integers a >= 0, b >= 0 (0/0 is NaN, a/0 is Infinity)
Div(a, b) ==
    IF b = 0 THEN (IF a = 0 THEN NaN ELSE Infinity)
    ELSE LET g == GCD(a, b) IN [n |-> a \div g, d |-> b \div g]

Num(a) == [n |-> a, d |-> 1]

\* x + y
Add(x, y) ==
    IF IsNaN(x) \/ IsNaN(y) THEN NaN
    ELSE IF IsInf(x) \/ IsInf(y) THEN Infinity
    ELSE Div(x.n * y.d + y.n * x.d, x.d * y.d)

\* x / k for an integer k > 0
DivBy(x, k) ==
    IF IsNaN(x) THEN NaN
    ELSE IF IsInf(x) THEN Infinity
    ELSE Div(x.n, x.d * k)

\* comparisons of x with the constant a/b (b > 0); every comparison with NaN is false
Ge(x, a, b) == IF IsNaN(x) THEN FALSE ELSE IF IsInf(x) THEN TRUE ELSE x.n * b >= a * x.d
Gt(x, a, b) == IF IsNaN(x) THEN FALSE ELSE IF IsInf(x) THEN TRUE ELSE x.n * b > a * x.d
Le(x, a, b) == IF IsNaN(x) THEN FALSE ELSE IF IsInf(x) THEN FALSE ELSE x.n * b <= a * x.d
Lt(x, a, b) == IF IsNaN(x) THEN FALSE ELSE IF IsInf(x) THEN FALSE ELSE x.n * b < a * x.d

\* events.filter(e => e.eventType is one of types), and slice(-k)
RECURSIVE Filter(_, _)
Filter(s, types) ==
    IF s = <<>> THEN <<>>
    ELSE (IF Head(s).eventType \in types THEN <<Head(s)>> ELSE <<>>) \o Filter(Tail(s), types)

SliceLast(s, k) == IF Len(s) <= k THEN s ELSE SubSeq(s, Len(s) - k + 1, Len(s))

Range(s) == {s[i] : i \in 1..Len(s)}

----------------------------------------------------------------------------
(* LearningAnalytics *)

NULL == "null"

\* constructor()
NewLearningAnalytics ==
    [events |-> <<>>,
     conceptPerformance |-> <<>>,
     learnerProfile |->
        [learningStyle |-> NULL,
         pacePreference |-> NULL,
         strengthAreas |-> <<>>,
         struggleAreas |-> <<>>,
         confidencePattern |-> <<>>,
         engagementLevel |-> "medium",
         preferredExplanationType |-> NULL]]

\* conceptPerformance is a Record<string, ConceptPerformance>; it is kept as the
\* sequence of its entries in key insertion order (the order of Object.entries).
HasPerf(perf, conceptId) == \E i \in 1..Len(perf) : perf[i].id = conceptId
PerfIndex(perf, conceptId) == CHOOSE i \in 1..Len(perf) : perf[i].id = conceptId

\* attempts.reduce((sum, a) => sum + a.confidence, 0)
RECURSIVE SumConfidence(_)
SumConfidence(attempts) ==
    IF attempts = <<>> THEN 0
    ELSE attempts[Len(attempts)].confidence + SumConfidence(SubSeq(attempts, 1, Len(attempts) - 1))

\* attempts.reduce((sum, a) => sum + (a.questionsCorrect / a.questionsTotal), 0)
RECURSIVE SumAccuracy(_)
SumAccuracy(attempts) ==
    IF attempts = <<>> THEN Num(0)
    ELSE LET a == attempts[Len(attempts)]
         IN  Add(SumAccuracy(SubSeq(attempts, 1, Len(attempts) - 1)),
                 Div(a.questionsCorrect, a.questionsTotal))

\* calculateAverageTimePerConcept()
RECURSIVE SumTotalTime(_)
SumTotalTime(perf) ==
    IF perf = <<>> THEN 0 ELSE Head(perf).totalTime + SumTotalTime(Tail(perf))

calculateAverageTimePerConcept(perf) ==
    IF Len(perf) = 0 THEN Num(90000)
    ELSE Div(SumTotalTime(perf), Len(perf))

\* bug variant: the thresholds are inclusive
PaceOf_Inclusive(avgTimePerConcept) ==
    IF Ge(avgTimePerConcept, 180000, 1) THEN "slow"
    ELSE IF Le(avgTimePerConcept, 60000, 1) THEN "fast"
    ELSE "medium"

\* the pace branch of analyzePatterns()
PaceOf(avgTimePerConcept) ==
    IF Gt(avgTimePerConcept, 180000, 1) THEN "slow"
    ELSE IF Lt(avgTimePerConcept, 60000, 1) THEN "fast"
    ELSE "medium"

\* the visual-engagement branch of analyzePatterns()
VisualEventTypes == {"visual_interaction", "3d_rotation"}
ChatEventTypes == {"chat_message"}
ConfidenceEventTypes == {"confidence_set"}

\* bug variant: the comparisons are not strict
StyleOf_NonStrict(events) ==
    LET visualInteractions == Len(Filter(events, VisualEventTypes))
        chatInteractions == Len(Filter(events, ChatEventTypes))
    IN  IF visualInteractions >= chatInteractions * 2 THEN "visual"
        ELSE IF chatInteractions >= visualInteractions * 2 THEN "reading"
        ELSE "mixed"

StyleOf(events) ==
    LET visualInteractions == Len(Filter(events, VisualEventTypes))
        chatInteractions == Len(Filter(events, ChatEventTypes))
    IN  IF visualInteractions > chatInteractions * 2 THEN "visual"
        ELSE IF chatInteractions > visualInteractions * 2 THEN "reading"
        ELSE "mixed"

\* the engagement branch of analyzePatterns()
RECURSIVE SumLevels(_)
SumLevels(es) == IF es = <<>> THEN 0 ELSE Head(es).level + SumLevels(Tail(es))

\* bug variant: the mean is taken over every confidence_set event
EngagementOf_AllEvents(events, previous) ==
    LET recentConfidences == Filter(events, ConfidenceEventTypes)
    IN  IF Len(recentConfidences) > 0
        THEN LET avgConfidence == Div(SumLevels(recentConfidences), Len(recentConfidences))
             IN  IF Ge(avgConfidence, 4, 1) THEN "high"
                 ELSE IF Le(avgConfidence, 2, 1) THEN "low"
                 ELSE "medium"
        ELSE previous

EngagementOf(events, previous) ==
    LET recentConfidences == SliceLast(Filter(events, ConfidenceEventTypes), 5)
    IN  IF Len(recentConfidences) > 0
        THEN LET avgConfidence == Div(SumLevels(recentConfidences), Len(recentConfidences))
             IN  IF Ge(avgConfidence, 4, 1) THEN "high"
                 ELSE IF Le(avgConfidence, 2, 1) THEN "low"
                 ELSE "medium"
        ELSE previous

\* bug variant: one high aggregate is enough for a strength
IsStrength_Or(p) == Ge(p.averageConfidence, 4, 1) \/ Ge(p.questionAccuracy, 4, 5)

IsStrength(p) == Ge(p.averageConfidence, 4, 1) /\ Ge(p.questionAccuracy, 4, 5)
IsStruggle(p) == Le(p.averageConfidence, 2, 1) \/ Lt(p.questionAccuracy, 1, 2)

\* the loop of updateStrengthsAndStruggles(): entries pushed onto the two lists
RECURSIVE PushAreas(_, _, _)
PushAreas(perf, strengths, struggles) ==
    IF perf = <<>> THEN [strengthAreas |-> strengths, struggleAreas |-> struggles]
    ELSE LET p == Head(perf)
         IN  IF IsStrength(p)
             THEN PushAreas(Tail(perf), Append(strengths, p.id), struggles)
             ELSE IF IsStruggle(p)
             THEN PushAreas(Tail(perf), strengths, Append(struggles, p.id))
             ELSE PushAreas(Tail(perf), strengths, struggles)

\* bug variant: the two lists are not cleared before the loop
updateStrengthsAndStruggles_NoReset(profile, perf) ==
    LET r == PushAreas(perf, profile.strengthAreas, profile.struggleAreas)
    IN  [profile EXCEPT !.strengthAreas = r.strengthAreas,
                        !.struggleAreas = r.struggleAreas]

\* updateStrengthsAndStruggles()
updateStrengthsAndStruggles(profile, perf) ==
    LET r == PushAreas(perf, <<>>, <<>>)
    IN  [profile EXCEPT !.strengthAreas = r.strengthAreas,
                        !.struggleAreas = r.struggleAreas]

\* analyzePatterns()
analyzePatterns(an) ==
    LET p1 == [an.learnerProfile EXCEPT
                  !.pacePreference = PaceOf(calculateAverageTimePerConcept(an.conceptPerformance)),
                  !.learningStyle = StyleOf(an.events)]
        p2 == updateStrengthsAndStruggles(p1, an.conceptPerformance)
        p3 == [p2 EXCEPT !.engagementLevel = EngagementOf(an.events, p2.engagementLevel)]
    IN  [an EXCEPT !.learnerProfile = p3]

\* trackEvent(eventType, data); of data only data.level is ever read back
trackEvent(an, eventType, level) ==
    analyzePatterns([an EXCEPT !.events = Append(@, [eventType |-> eventType, level |-> level])])

\* bug variant: revisits is incremented on the first attempt too
RecordAttempt_RevisitsAlways(p, data) ==
    LET attempts == Append(p.attempts, data)
    IN  [p EXCEPT !.attempts = attempts,
                  !.totalTime = @ + data.timeSpent,
                  !.averageConfidence = Div(SumConfidence(attempts), Len(attempts)),
                  !.questionAccuracy = DivBy(SumAccuracy(attempts), Len(attempts)),
                  !.revisits = @ + 1]

\* the aggregate update of trackConceptAttempt on one entry
RecordAttempt(p, data) ==
    LET attempts == Append(p.attempts, data)
    IN  [p EXCEPT !.attempts = attempts,
                  !.totalTime = @ + data.timeSpent,
                  !.averageConfidence = Div(SumConfidence(attempts), Len(attempts)),
                  !.questionAccuracy = DivBy(SumAccuracy(attempts), Len(attempts)),
                  !.revisits = IF Len(attempts) > 1 THEN @ + 1 ELSE @]

NewPerformance(conceptId) ==
    [id |-> conceptId, attempts |-> <<>>, totalTime |-> 0,
     averageConfidence |-> Num(0), questionAccuracy |-> Num(0), revisits |-> 0]

\* bug variant: the event is tracked (and the profile analysed) before the
\* aggregates are updated
trackConceptAttempt_AnalyzeFirst(an, conceptId, data) ==
    LET tracked == trackEvent(an, "concept_attempt", 0)
        perf0 == IF HasPerf(an.conceptPerformance, conceptId)
                 THEN an.conceptPerformance
                 ELSE Append(an.conceptPerformance, NewPerformance(conceptId))
        i == PerfIndex(perf0, conceptId)
    IN  [tracked EXCEPT !.conceptPerformance = [perf0 EXCEPT ![i] = RecordAttempt(perf0[i], data)]]

\* trackConceptAttempt(conceptId, data)
trackConceptAttempt(an, conceptId, data) ==
    LET perf0 == IF HasPerf(an.conceptPerformance, conceptId)
                 THEN an.conceptPerformance
                 ELSE Append(an.conceptPerformance, NewPerformance(conceptId))
        i == PerfIndex(perf0, conceptId)
        perf1 == [perf0 EXCEPT ![i] = RecordAttempt(perf0[i], data)]
    IN  trackEvent([an EXCEPT !.conceptPerformance = perf1], "concept_attempt", 0)

\* bug variant: the pace entry is pushed before the review entry
getRecommendations_PaceFirst(profile) ==
    (IF profile.pacePreference = "slow"
     THEN <<[type |-> "pace", priority |-> "medium", areas |-> <<>>]>>
     ELSE <<>>)
    \o (IF Len(profile.struggleAreas) > 0
        THEN <<[type |-> "review", priority |-> "high", areas |-> profile.struggleAreas]>>
        ELSE <<>>)
    \o (IF profile.learningStyle = "visual"
        THEN <<[type |-> "style", priority |-> "low", areas |-> <<>>]>>
        ELSE <<>>)

\* getRecommendations(); the message of the review entry is the joined struggleAreas
getRecommendations(profile) ==
    (IF Len(profile.struggleAreas) > 0
     THEN <<[type |-> "review", priority |-> "high", areas |-> profile.struggleAreas]>>
     ELSE <<>>)
    \o (IF profile.pacePreference = "slow"
        THEN <<[type |-> "pace", priority |-> "medium", areas |-> <<>>]>>
        ELSE <<>>)
    \o (IF profile.learningStyle = "visual"
        THEN <<[type |-> "style", priority |-> "low", areas |-> <<>>]>>
        ELSE <<>>)

----------------------------------------------------------------------------
(* Inputs of the class-level specification *)

ConfidenceInputs == {1, 3, 5}
ConceptIds == {"building-blocks", "electron-deep-dive"}
QuestionInputs == {<<0, 0>>, <<0, 2>>, <<1, 2>>, <<2, 2>>}   \* <<correct, total>>

Attempt(c, qc, qt, t, chat, help) ==
    [confidence |-> c, questionsCorrect |-> qc, questionsTotal |-> qt,
     timeSpent |-> t, usedChat |-> chat, triggeredAdaptiveHelp |-> help]

\* the time a learner of the specification spends on a concept: the less
\* confident, the longer, so that every pace threshold is met from both sides
TimeSpentFor(c) == IF c >= 5 THEN 30000 ELSE IF c >= 3 THEN 60000 ELSE 180000

\* the attempts the application can report, and one it cannot: the class does
\* not validate its input, and 1 correct answer out of 0 is a ratio of Infinity
ScoreInputs ==
    {Attempt(c, q[1], q[2], TimeSpentFor(c), c < 5, c < 3) :
        c \in ConfidenceInputs, q \in QuestionInputs}
MalformedInputs == {Attempt(5, 1, 0, TimeSpentFor(5), FALSE, FALSE)}
AttemptInputs == ScoreInputs \cup MalformedInputs

EventInputs ==
    {[eventType |-> "chat_message", level |-> 0],
     [eventType |-> "visual_interaction", level |-> 0],
     [eventType |-> "confidence_set", level |-> 1],
     [eventType |-> "confidence_set", level |-> 5]}

NumAttempts(an) == Len(Filter(an.events, {"concept_attempt"}))

----------------------------------------------------------------------------
(* The application state the class-level specification leaves alone *)

NoHelp == [type |-> NULL, message |-> "", suggestions |-> 0, alternativeExplanation |-> ""]

NewProgress ==
    [completedConcepts |-> 0, totalConcepts |-> 0, confidenceScores |-> <<>>,
     strengths |-> <<>>, needsWork |-> <<>>, conceptHistory |-> <<>>]

\* audioRef.current = null
NoAudio == [id |-> 0, text |-> NULL]

\* useTextToSpeech(): the state and refs of a fresh hook instance, with the
\* fetches it has outstanding and the Audio elements it has started
NewTextToSpeech ==
    [isLoading |-> FALSE, isPlaying |-> FALSE, error |-> NULL, audioRef |-> NoAudio,
     cache |-> {}, playing |-> {}, pending |-> {}, issued |-> 0]

\* a JavaScript value that is undefined, or the string s
Undefined == [defined |-> FALSE, value |-> ""]
Str(s) == [defined |-> TRUE, value |-> s]

\* useChat(): the state and the conversationHistory ref of a fresh hook
\* instance, with the messages of its outstanding fetches in the order they
\* were sent, and the promise of the sendMessage call that settled last
NewChat ==
    [isLoading |-> FALSE, error |-> NULL, conversationHistory |-> <<>>, pending |-> <<>>,
     settled |-> [message |-> NULL, state |-> NULL, overtook |-> FALSE, cut |-> 0]]

NoResponse == [status |-> 0, body |-> NULL, feedback |-> <<>>]

\* api/feedback.ts after its module is loaded with process.env.ADMIN_KEY = adminKey
NewFeedbackApi(adminKey) ==
    [feedbackStore |-> <<>>, ADMIN_KEY |-> adminKey, response |-> NoResponse]

\* no request outstanding, voice off, nothing playing
IOIdle ==
    /\ chatHook = NewChat
    /\ chatPending = 0
    /\ voiceEnabled = FALSE
    /\ voiceLoading = FALSE
    /\ isSpeaking = FALSE
    /\ audioRef = NoAudio
    /\ playing = {}
    /\ ttsPending = {}
    /\ ttsIssued = 0
    /\ feedbackSubmitting = FALSE
    /\ feedbackSuccess = FALSE
    /\ feedbackPending = 0
    /\ tts = NewTextToSpeech

AppUnmounted ==
    /\ IOIdle
    /\ currentScreen = "welcome"
    /\ currentModule = 0
    /\ currentConcept = 0
    /\ confidenceLevel = 3
    /\ knowledgeCheckAnswers = <<>>
    /\ showAdaptiveHelp = FALSE
    /\ adaptiveHelpContent = NoHelp
    /\ chatHistory = <<>>
    /\ isAiThinking = FALSE
    /\ progress = NewProgress

----------------------------------------------------------------------------
(* Class-level specification: a LearningAnalytics instance driven through   *)
(* its public methods                                                       *)

InitLA ==
    /\ analytics = NewLearningAnalytics
    /\ recommendations = <<>>
    /\ AppUnmounted
    /\ api = NewFeedbackApi(Undefined)

TrackEvent(e) ==
    /\ Len(analytics.events) < MaxEvents
    /\ analytics' = trackEvent(analytics, e.eventType, e.level)
    /\ UNCHANGED <<recommendations, appVars>>

TrackConceptAttempt(conceptId, data) ==
    /\ Len(analytics.events) < MaxEvents
    /\ NumAttempts(analytics) < MaxAttempts
    /\ analytics' = trackConceptAttempt(analytics, conceptId, data)
    /\ UNCHANGED <<recommendations, appVars>>

AnalyzePatterns ==
    /\ analytics' = analyzePatterns(analytics)
    /\ UNCHANGED <<recommendations, appVars>>

GetRecommendations ==
    /\ recommendations' = getRecommendations(analytics.learnerProfile)
    /\ UNCHANGED <<analytics, appVars>>

NextLA ==
    \/ \E e \in EventInputs : TrackEvent(e)
    \/ \E conceptId \in ConceptIds, data \in AttemptInputs : TrackConceptAttempt(conceptId, data)
    \/ AnalyzePatterns
    \/ GetRecommendations

SpecLA == InitLA /\ [][NextLA]_vars

----------------------------------------------------------------------------
(* Event-log specification: a LearningAnalytics instance that only logs     *)
(* interaction events, with a log long enough to overflow the engagement    *)
(* window of 5 confidence_set events                                        *)

LogInputs ==
    {[eventType |-> "chat_message", level |-> 0],
     [eventType |-> "visual_interaction", level |-> 0],
     [eventType |-> "3d_rotation", level |-> 0],
     [eventType |-> "confidence_set", level |-> 1],
     [eventType |-> "confidence_set", level |-> 3],
     [eventType |-> "confidence_set", level |-> 5]}

LogEvent(e) ==
    /\ Len(analytics.events) < MaxLog
    /\ analytics' = trackEvent(analytics, e.eventType, e.level)
    /\ UNCHANGED <<recommendations, appVars>>

NextLog == \E e \in LogInputs : LogEvent(e)

SpecLog == InitLA /\ [][NextLog]_vars

----------------------------------------------------------------------------
(* Concept catalog: the first concepts of the application's catalog, with   *)
(* their two knowledge checks each, laid out as modules of ModuleSizes      *)

CatalogIds ==
    <<"building-blocks", "electron-deep-dive", "stability-rule", "carbon-nucleus",
      "electron-shells", "orbital-shapes", "electron-configuration", "valence-electrons",
      "bonding-power", "oxygen-glucose", "nitrogen-glycine", "grand-connection">>

CatalogChecks ==
    <<  <<[id |-> "bb1", correct |-> 2], [id |-> "bb2", correct |-> 2]>>,
        <<[id |-> "ed1", correct |-> 1], [id |-> "ed2", correct |-> 2]>>,
        <<[id |-> "sr1", correct |-> 2], [id |-> "sr2", correct |-> 1]>>,
        <<[id |-> "nc1", correct |-> 1], [id |-> "nc2", correct |-> 1]>>,
        <<[id |-> "es1", correct |-> 1], [id |-> "es2", correct |-> 1]>>,
        <<[id |-> "os1", correct |-> 1], [id |-> "os2", correct |-> 1]>>,
        <<[id |-> "ec1", correct |-> 1], [id |-> "ec2", correct |-> 1]>>,
        <<[id |-> "ve1", correct |-> 1], [id |-> "ve2", correct |-> 2]>>,
        <<[id |-> "bp1", correct |-> 1], [id |-> "bp2", correct |-> 0]>>,
        <<[id |-> "og1", correct |-> 1], [id |-> "og2", correct |-> 1]>>,
        <<[id |-> "ng1", correct |-> 2], [id |-> "ng2", correct |-> 1]>>,
        <<[id |-> "gc1", correct |-> 1], [id |-> "gc2", correct |-> 1]>>  >>

NumOptions == 4

ConceptAt(k) == [id |-> CatalogIds[k], title |-> CatalogIds[k], knowledgeChecks |-> CatalogChecks[k]]

ModuleSizes == <<2, 1>>

RECURSIVE ConceptsBefore(_)
ConceptsBefore(m) == IF m = 1 THEN 0 ELSE ModuleSizes[m - 1] + ConceptsBefore(m - 1)

modules ==
    [m \in 1..Len(ModuleSizes) |->
        [c \in 1..ModuleSizes[m] |-> ConceptAt(ConceptsBefore(m) + c)]]

\* modules[currentModule].concepts[currentConcept], with the code's 0-based indices
currentConceptData == modules[currentModule + 1][currentConcept + 1]
ConceptsIn(m) == Len(modules[m + 1])

\* the options a learner picks in the specification: the correct one and a wrong one
OptionInputs(check) == {check.correct, (check.correct + 1) % NumOptions}
AppTimeSpentInputs == {90000}
AppConfidenceInputs == {2, 3, 4}

----------------------------------------------------------------------------
(* KyOrdaApp: knowledge-check score, adaptive help, concept completion      *)

Answered(answers, check) == check.id \in DOMAIN answers
IsCorrect(answers, check) == Answered(answers, check) /\ answers[check.id] = check.correct

\* checks.filter(c => knowledgeCheckAnswers[c.id] === c.correct).length
CorrectCount(checks, answers) ==
    Cardinality({i \in 1..Len(checks) : IsCorrect(answers, checks[i])})

\* calculateKnowledgeCheckScore()
calculateKnowledgeCheckScore(checks, answers) ==
    IF Len(checks) = 0 THEN Num(1)
    ELSE Div(CorrectCount(checks, answers), Len(checks))

\* bug variant: the gate blocks only when confidence and score are both low
isStruggling_Both(confidence, score) == confidence <= 2 /\ Lt(score, 1, 2)

\* bug variant: a score of exactly 0.5 blocks
isStruggling_ScoreInclusive(confidence, score) == confidence <= 2 \/ Le(score, 1, 2)

\* const isStruggling = confidenceLevel <= 2 || knowledgeCheckScore < 0.5
isStruggling(confidence, score) == confidence <= 2 \/ Lt(score, 1, 2)

\* triggerAdaptiveHelp(score): the help content it builds
AlternativeExplanationFor(conceptId) ==
    IF conceptId \in Range(CatalogIds) THEN conceptId ELSE "generic"

triggerAdaptiveHelp(concept, confidence, answers, score) ==
    LET missedQuestions == Len(concept.knowledgeChecks) - CorrectCount(concept.knowledgeChecks, answers)
    IN  IF confidence <= 2 /\ Lt(score, 1, 2)
        THEN [type |-> "struggling", message |-> "confused-and-missed", suggestions |-> 3,
              alternativeExplanation |-> AlternativeExplanationFor(concept.id)]
        ELSE IF confidence <= 2
        THEN [type |-> "struggling", message |-> "confused-but-right", suggestions |-> 3,
              alternativeExplanation |-> AlternativeExplanationFor(concept.id)]
        ELSE IF Lt(score, 1, 2)
        THEN [type |-> "struggling", message |-> "missed-questions", suggestions |-> missedQuestions,
              alternativeExplanation |-> ""]
        ELSE [type |-> "struggling", message |-> "", suggestions |-> 0,
              alternativeExplanation |-> ""]

\* the setProgress updater of handleConceptComplete()
CompleteProgress(prev, concept, confidence, score) ==
    [prev EXCEPT
        !.completedConcepts = @ + 1,
        !.conceptHistory = Append(@, [id |-> concept.id, confidence |-> confidence,
                                      knowledgeCheckScore |-> score]),
        !.confidenceScores = Append(@, confidence),
        !.strengths = IF confidence >= 4 /\ Ge(score, 4, 5) THEN Append(@, concept.title) ELSE @,
        !.needsWork = IF confidence <= 2 \/ Lt(score, 1, 2) THEN Append(@, concept.title) ELSE @]

\* the attempt handleConceptComplete() hands to trackConceptAttempt
CompletedAttempt(concept, confidence, answers, chat, timeSpent) ==
    Attempt(confidence,
            CorrectCount(concept.knowledgeChecks, answers),
            Len(concept.knowledgeChecks),
            timeSpent,
            Len(chat) > 0,
            FALSE)

\* the confidence_set effect: runs after a render in which confidenceLevel changed
ConfidenceEffect(an, oldLevel, newLevel) ==
    IF newLevel # oldLevel THEN trackEvent(an, "confidence_set", newLevel) ELSE an

EventsLogged(oldLevel, newLevel) == IF newLevel # oldLevel THEN 1 ELSE 0

----------------------------------------------------------------------------
(* Application specification: KyOrdaApp driven by the learner               *)

\* modules.reduce((sum, module) => sum + module.concepts.length, 0)
TotalConcepts == ConceptsBefore(Len(ModuleSizes) + 1)

\* state after the first render and its mount effects (confidence_set for the
\* initial level 3, totalConcepts)
Init ==
    /\ analytics = trackEvent(NewLearningAnalytics, "confidence_set", 3)
    /\ recommendations = <<>>
    /\ currentScreen = "welcome"
    /\ currentModule = 0
    /\ currentConcept = 0
    /\ confidenceLevel = 3
    /\ knowledgeCheckAnswers = <<>>
    /\ showAdaptiveHelp = FALSE
    /\ adaptiveHelpContent = NoHelp
    /\ chatHistory = <<>>
    /\ isAiThinking = FALSE
    /\ progress = [NewProgress EXCEPT !.totalConcepts = TotalConcepts]
    /\ IOIdle
    /\ api = NewFeedbackApi(Undefined)

\* the Adaptive Help Modal is rendered (a full-screen overlay over the learning screen)
ModalShown == showAdaptiveHelp /\ adaptiveHelpContent # NoHelp

\* the learning screen's own controls can be clicked
OnLearningScreen == currentScreen = "learning" /\ ~ModalShown

\* bug variant: the Next button is enabled by the first answer
NextDisabled_UntilFirstAnswer ==
    /\ Len(currentConceptData.knowledgeChecks) > 0
    /\ Cardinality(DOMAIN knowledgeCheckAnswers) < 1

\* disabled condition of the Next button
NextDisabled ==
    /\ Len(currentConceptData.knowledgeChecks) > 0
    /\ Cardinality(DOMAIN knowledgeCheckAnswers) < Len(currentConceptData.knowledgeChecks)

\* the refs and state speakText() and stopSpeaking() work on
SpeechNow ==
    [voiceLoading |-> voiceLoading, isSpeaking |-> isSpeaking, audioRef |-> audioRef,
     playing |-> playing, ttsPending |-> ttsPending, ttsIssued |-> ttsIssued]

\* stopSpeaking(), and the same three statements at the head of speakText()
stopSpeaking(sp) ==
    IF sp.audioRef # NoAudio
    THEN [sp EXCEPT !.playing = @ \ {sp.audioRef}, !.audioRef = NoAudio, !.isSpeaking = FALSE]
    ELSE sp

\* speakText(text) up to its fetch; enabled and loading are voiceEnabled and
\* voiceLoading as the calling render saw them
speakText(sp, enabled, loading, text) ==
    IF ~enabled \/ loading THEN sp
    ELSE LET stopped == stopSpeaking(sp)
         IN  [stopped EXCEPT
                 !.voiceLoading = TRUE,
                 !.ttsIssued = @ + 1,
                 !.ttsPending = @ \cup {[id |-> stopped.ttsIssued + 1, text |-> text]}]

\* the auto-speak effect: when one of currentConcept, currentModule, voiceEnabled,
\* currentScreen changed, the cleanup of the previous run, then the body
AutoSpeakEffect(sp, changed, enabled, screen, text) ==
    IF ~changed THEN sp
    ELSE LET cleaned == stopSpeaking(sp)
         IN  IF enabled /\ screen = "learning"
             THEN speakText(cleaned, enabled, cleaned.voiceLoading, text)
             ELSE cleaned

\* the render that follows a handler, and its auto-speak effect
AfterRender(sp) ==
    LET changed == <<currentConcept', currentModule', voiceEnabled', currentScreen'>>
                       # <<currentConcept, currentModule, voiceEnabled, currentScreen>>
        text == modules[currentModule' + 1][currentConcept' + 1].id
        after == AutoSpeakEffect(sp, changed, voiceEnabled', currentScreen', text)
    IN  /\ after.ttsIssued <= MaxSpeech
        /\ voiceLoading' = after.voiceLoading
        /\ isSpeaking' = after.isSpeaking
        /\ audioRef' = after.audioRef
        /\ playing' = after.playing
        /\ ttsPending' = after.ttsPending
        /\ ttsIssued' = after.ttsIssued

\* 'Begin Quantum Journey'
BeginJourney ==
    /\ currentScreen = "welcome"
    /\ Len(analytics.events) < MaxAppEvents
    /\ currentScreen' = "learning"
    /\ analytics' = trackEvent(analytics, "session_start", 0)
    /\ UNCHANGED <<recommendations, currentModule, currentConcept, confidenceLevel,
                   knowledgeCheckAnswers, showAdaptiveHelp, adaptiveHelpContent,
                   chatHistory, isAiThinking, progress>>
    /\ UNCHANGED <<chatPending, voiceEnabled, feedbackVars, tts, extVars>>
    /\ AfterRender(SpeechNow)

\* a confidence button, followed by the confidence_set effect
SetConfidence(level) ==
    /\ OnLearningScreen
    /\ level # confidenceLevel
    /\ Len(analytics.events) < MaxAppEvents
    /\ confidenceLevel' = level
    /\ analytics' = ConfidenceEffect(analytics, confidenceLevel, level)
    /\ UNCHANGED <<recommendations, currentScreen, currentModule, currentConcept,
                   knowledgeCheckAnswers, showAdaptiveHelp, adaptiveHelpContent,
                   chatHistory, isAiThinking, progress>>
    /\ UNCHANGED ioVars

\* a knowledge-check option button
AnswerCheck(check, optIdx) ==
    /\ OnLearningScreen
    /\ ~Answered(knowledgeCheckAnswers, check)
    /\ knowledgeCheckAnswers' =
          [id \in DOMAIN knowledgeCheckAnswers \cup {check.id} |->
              IF id = check.id THEN optIdx ELSE knowledgeCheckAnswers[id]]
    /\ UNCHANGED <<analytics, recommendations, currentScreen, currentModule, currentConcept,
                   confidenceLevel, showAdaptiveHelp, adaptiveHelpContent,
                   chatHistory, isAiThinking, progress>>
    /\ UNCHANGED ioVars

\* handleConceptComplete(), then the position update and the resets shared by
\* handleNext and the two override buttons, then the confidence_set effect
CompleteAndAdvance(timeSpent) ==
    LET concept == currentConceptData
        score == calculateKnowledgeCheckScore(concept.knowledgeChecks, knowledgeCheckAnswers)
        attempt == CompletedAttempt(concept, confidenceLevel, knowledgeCheckAnswers,
                                    chatHistory, timeSpent)
        tracked == trackConceptAttempt(analytics, concept.id, attempt)
    IN  /\ Len(analytics.events) + 1 + EventsLogged(confidenceLevel, 3) <= MaxAppEvents
        /\ progress' = CompleteProgress(progress, concept, confidenceLevel, score)
        /\ IF currentConcept < ConceptsIn(currentModule) - 1
           THEN /\ currentConcept' = currentConcept + 1
                /\ UNCHANGED <<currentModule, currentScreen>>
           ELSE IF currentModule < Len(modules) - 1
           THEN /\ currentModule' = currentModule + 1
                /\ currentConcept' = 0
                /\ UNCHANGED currentScreen
           ELSE /\ currentScreen' = "complete"
                /\ UNCHANGED <<currentModule, currentConcept>>
        /\ confidenceLevel' = 3
        /\ chatHistory' = <<>>
        /\ knowledgeCheckAnswers' = <<>>
        /\ showAdaptiveHelp' = FALSE
        /\ analytics' = ConfidenceEffect(tracked, confidenceLevel, 3)

\* handleNext()
handleNext(timeSpent) ==
    /\ OnLearningScreen
    /\ ~NextDisabled
    /\ LET knowledgeCheckScore ==
              calculateKnowledgeCheckScore(currentConceptData.knowledgeChecks, knowledgeCheckAnswers)
       IN  IF isStruggling(confidenceLevel, knowledgeCheckScore)
           THEN /\ adaptiveHelpContent' =
                      triggerAdaptiveHelp(currentConceptData, confidenceLevel,
                                          knowledgeCheckAnswers, knowledgeCheckScore)
                /\ showAdaptiveHelp' = TRUE
                /\ UNCHANGED <<analytics, currentScreen, currentModule, currentConcept,
                               confidenceLevel, knowledgeCheckAnswers, chatHistory, progress>>
           ELSE /\ CompleteAndAdvance(timeSpent)
                /\ adaptiveHelpContent' = NoHelp
    /\ UNCHANGED <<recommendations, isAiThinking>>
    /\ UNCHANGED <<chatPending, voiceEnabled, feedbackVars, tts, extVars>>
    /\ AfterRender(SpeechNow)

\* bug variant: going back over a module boundary lands one past the last concept
handlePrevious_PastLast ==
    /\ OnLearningScreen
    /\ ~(currentModule = 0 /\ currentConcept = 0)
    /\ Len(analytics.events) + EventsLogged(confidenceLevel, 3) <= MaxAppEvents
    /\ IF currentConcept > 0
       THEN /\ currentConcept' = currentConcept - 1
            /\ UNCHANGED currentModule
       ELSE IF currentModule > 0
       THEN /\ currentModule' = currentModule - 1
            /\ currentConcept' = ConceptsIn(currentModule - 1)
       ELSE UNCHANGED <<currentModule, currentConcept>>
    /\ confidenceLevel' = 3
    /\ chatHistory' = <<>>
    /\ knowledgeCheckAnswers' = <<>>
    /\ showAdaptiveHelp' = FALSE
    /\ adaptiveHelpContent' = NoHelp
    /\ analytics' = ConfidenceEffect(analytics, confidenceLevel, 3)
    /\ UNCHANGED <<recommendations, currentScreen, isAiThinking, progress>>
    /\ UNCHANGED <<chatPending, voiceEnabled, feedbackVars, tts, extVars>>
    /\ AfterRender(SpeechNow)

\* handlePrevious(), then the confidence_set effect
handlePrevious ==
    /\ OnLearningScreen
    /\ ~(currentModule = 0 /\ currentConcept = 0)
    /\ Len(analytics.events) + EventsLogged(confidenceLevel, 3) <= MaxAppEvents
    /\ IF currentConcept > 0
       THEN /\ currentConcept' = currentConcept - 1
            /\ UNCHANGED currentModule
       ELSE IF currentModule > 0
       THEN /\ currentModule' = currentModule - 1
            /\ currentConcept' = ConceptsIn(currentModule - 1) - 1
       ELSE UNCHANGED <<currentModule, currentConcept>>
    /\ confidenceLevel' = 3
    /\ chatHistory' = <<>>
    /\ knowledgeCheckAnswers' = <<>>
    /\ showAdaptiveHelp' = FALSE
    /\ adaptiveHelpContent' = NoHelp
    /\ analytics' = ConfidenceEffect(analytics, confidenceLevel, 3)
    /\ UNCHANGED <<recommendations, currentScreen, isAiThinking, progress>>
    /\ UNCHANGED <<chatPending, voiceEnabled, feedbackVars, tts, extVars>>
    /\ AfterRender(SpeechNow)

\* bug variant: retrying starts the knowledge checks over
ReviewAgain_ClearsAnswers ==
    /\ currentScreen = "learning"
    /\ ModalShown
    /\ showAdaptiveHelp' = FALSE
    /\ knowledgeCheckAnswers' = <<>>
    /\ UNCHANGED <<analytics, recommendations, currentScreen, currentModule, currentConcept,
                   confidenceLevel, adaptiveHelpContent,
                   chatHistory, isAiThinking, progress>>
    /\ UNCHANGED ioVars

\* 'Review Again' of the Adaptive Help Modal. 'Ask Ky'Orda Questions' and the
\* suggestion buttons hide the modal in the same way and open the chat panel,
\* which is not part of this state.
ReviewAgain ==
    /\ currentScreen = "learning"
    /\ ModalShown
    /\ showAdaptiveHelp' = FALSE
    /\ UNCHANGED <<analytics, recommendations, currentScreen, currentModule, currentConcept,
                   confidenceLevel, knowledgeCheckAnswers, adaptiveHelpContent,
                   chatHistory, isAiThinking, progress>>
    /\ UNCHANGED ioVars

\* 'I'm Ready - Continue to Next Concept' and 'Skip Anyway (Not Recommended)' of
\* the Adaptive Help Modal: two buttons with the same handler
OverrideButtons == {"continue", "skip"}

Override(button, timeSpent) ==
    /\ button \in OverrideButtons
    /\ currentScreen = "learning"
    /\ ModalShown
    /\ CompleteAndAdvance(timeSpent)
    /\ UNCHANGED <<recommendations, adaptiveHelpContent, isAiThinking>>
    /\ UNCHANGED <<chatPending, voiceEnabled, feedbackVars, tts, extVars>>
    /\ AfterRender(SpeechNow)

\* bug variant: the restart keeps the position on the last concept
ExploreAgain_KeepsPosition ==
    /\ currentScreen = "complete"
    /\ currentScreen' = "welcome"
    /\ UNCHANGED <<analytics, recommendations, currentModule, currentConcept, confidenceLevel,
                   knowledgeCheckAnswers, showAdaptiveHelp, adaptiveHelpContent, chatHistory,
                   isAiThinking, progress>>
    /\ UNCHANGED <<chatPending, voiceEnabled, feedbackVars, tts, extVars>>
    /\ AfterRender(SpeechNow)

\* 'Explore Again' of the completion screen
ExploreAgain ==
    /\ currentScreen = "complete"
    /\ currentScreen' = "welcome"
    /\ currentModule' = 0
    /\ currentConcept' = 0
    /\ UNCHANGED <<analytics, recommendations, confidenceLevel, knowledgeCheckAnswers,
                   showAdaptiveHelp, adaptiveHelpContent, chatHistory, isAiThinking, progress>>
    /\ UNCHANGED <<chatPending, voiceEnabled, feedbackVars, tts, extVars>>
    /\ AfterRender(SpeechNow)

\* bug variant: the send is not refused while a request is outstanding
handleAiChat_NoBusyGuard ==
    /\ OnLearningScreen
    /\ Len(analytics.events) < MaxAppEvents
    /\ chatHistory' = Append(chatHistory, [role |-> "user", content |-> "question"])
    /\ isAiThinking' = TRUE
    /\ chatPending' = chatPending + 1
    /\ analytics' = trackEvent(analytics, "chat_message", 0)
    /\ UNCHANGED <<recommendations, currentScreen, currentModule, currentConcept,
                   confidenceLevel, knowledgeCheckAnswers, showAdaptiveHelp,
                   adaptiveHelpContent, progress>>
    /\ UNCHANGED <<speechVars, feedbackVars, tts, extVars>>

\* bug variant: a chat message is logged as an interaction with the visualization
handleAiChat_LogsVisual ==
    /\ OnLearningScreen
    /\ ~isAiThinking
    /\ Len(analytics.events) < MaxAppEvents
    /\ chatHistory' = Append(chatHistory, [role |-> "user", content |-> "question"])
    /\ isAiThinking' = TRUE
    /\ chatPending' = chatPending + 1
    /\ analytics' = trackEvent(analytics, "visual_interaction", 0)
    /\ UNCHANGED <<recommendations, currentScreen, currentModule, currentConcept,
                   confidenceLevel, knowledgeCheckAnswers, showAdaptiveHelp,
                   adaptiveHelpContent, progress>>
    /\ UNCHANGED <<speechVars, feedbackVars, tts, extVars>>

\* handleAiChat() up to its fetch, for a non-blank chatInput
handleAiChat ==
    /\ OnLearningScreen
    /\ ~isAiThinking
    /\ Len(analytics.events) < MaxAppEvents
    /\ chatHistory' = Append(chatHistory, [role |-> "user", content |-> "question"])
    /\ isAiThinking' = TRUE
    /\ chatPending' = chatPending + 1
    /\ analytics' = trackEvent(analytics, "chat_message", 0)
    /\ UNCHANGED <<recommendations, currentScreen, currentModule, currentConcept,
                   confidenceLevel, knowledgeCheckAnswers, showAdaptiveHelp,
                   adaptiveHelpContent, progress>>
    /\ UNCHANGED <<speechVars, feedbackVars, tts, extVars>>

\* handleAiChat() after its fetch: the reply, or the failure message, then finally
ChatSettled(content) ==
    /\ chatPending > 0
    /\ chatHistory' = Append(chatHistory, [role |-> "assistant", content |-> content])
    /\ isAiThinking' = FALSE
    /\ chatPending' = chatPending - 1
    /\ UNCHANGED <<analytics, recommendations, currentScreen, currentModule, currentConcept,
                   confidenceLevel, knowledgeCheckAnswers, showAdaptiveHelp,
                   adaptiveHelpContent, progress>>
    /\ UNCHANGED <<speechVars, feedbackVars, tts, extVars>>

\* chat messages sent so far
ChatsSent == Len(Filter(analytics.events, ChatEventTypes))

\* toggleVoice(), then the render and its auto-speak effect
toggleVoice ==
    /\ OnLearningScreen
    /\ voiceEnabled' = ~voiceEnabled
    /\ UNCHANGED <<analytics, recommendations, currentScreen, currentModule, currentConcept,
                   confidenceLevel, knowledgeCheckAnswers, showAdaptiveHelp,
                   adaptiveHelpContent, chatHistory, isAiThinking, progress>>
    /\ UNCHANGED <<chatPending, feedbackVars, tts, extVars>>
    /\ AfterRender(IF voiceEnabled THEN stopSpeaking(SpeechNow) ELSE SpeechNow)

SpeechOutcomes == {"ok", "failed"}

\* speakText() after its fetch: the Audio element is stored and played, or the
\* error is logged to the console; then finally
SpeechSettled(request, outcome) ==
    /\ request \in ttsPending
    /\ ttsPending' = ttsPending \ {request}
    /\ voiceLoading' = FALSE
    /\ IF outcome = "ok"
       THEN /\ audioRef' = request
            /\ playing' = playing \cup {request}
            /\ isSpeaking' = TRUE
       ELSE UNCHANGED <<audioRef, playing, isSpeaking>>
    /\ UNCHANGED <<analytics, recommendations, currentScreen, currentModule, currentConcept,
                   confidenceLevel, knowledgeCheckAnswers, showAdaptiveHelp,
                   adaptiveHelpContent, chatHistory, isAiThinking, progress>>
    /\ UNCHANGED <<chatPending, voiceEnabled, ttsIssued, feedbackVars, tts, extVars>>

\* audio.onended of an Audio element speakText() started
AudioEnded(audio) ==
    /\ audio \in playing
    /\ playing' = playing \ {audio}
    /\ isSpeaking' = FALSE
    /\ audioRef' = NoAudio
    /\ UNCHANGED <<analytics, recommendations, currentScreen, currentModule, currentConcept,
                   confidenceLevel, knowledgeCheckAnswers, showAdaptiveHelp,
                   adaptiveHelpContent, chatHistory, isAiThinking, progress>>
    /\ UNCHANGED <<chatPending, voiceEnabled, voiceLoading, ttsPending, ttsIssued,
                   feedbackVars, tts, extVars>>

\* submitFeedback() up to its fetch, from the thumbs or the comment form
submitFeedback ==
    /\ OnLearningScreen
    /\ feedbackPending < MaxFeedback
    /\ feedbackSubmitting' = TRUE
    /\ feedbackPending' = feedbackPending + 1
    /\ UNCHANGED <<analytics, recommendations, currentScreen, currentModule, currentConcept,
                   confidenceLevel, knowledgeCheckAnswers, showAdaptiveHelp,
                   adaptiveHelpContent, chatHistory, isAiThinking, progress>>
    /\ UNCHANGED <<chatPending, speechVars, feedbackSuccess, tts, extVars>>

FeedbackOutcomes == {"ok", "not-ok", "failed"}

\* submitFeedback() after its fetch: success is flagged for an OK response, a
\* non-OK response is dropped, a network error is logged; then finally
FeedbackSettled(outcome) ==
    /\ feedbackPending > 0
    /\ feedbackPending' = feedbackPending - 1
    /\ feedbackSubmitting' = FALSE
    /\ feedbackSuccess' = IF outcome = "ok" THEN TRUE ELSE feedbackSuccess
    /\ UNCHANGED <<analytics, recommendations, currentScreen, currentModule, currentConcept,
                   confidenceLevel, knowledgeCheckAnswers, showAdaptiveHelp,
                   adaptiveHelpContent, chatHistory, isAiThinking, progress>>
    /\ UNCHANGED <<chatPending, speechVars, tts, extVars>>

\* the 1500 ms timer started by a successful submitFeedback()
FeedbackSuccessExpires ==
    /\ feedbackSuccess
    /\ feedbackSuccess' = FALSE
    /\ UNCHANGED <<analytics, recommendations, currentScreen, currentModule, currentConcept,
                   confidenceLevel, knowledgeCheckAnswers, showAdaptiveHelp,
                   adaptiveHelpContent, chatHistory, isAiThinking, progress>>
    /\ UNCHANGED <<chatPending, speechVars, feedbackSubmitting, feedbackPending, tts, extVars>>

Next ==
    \/ BeginJourney
    \/ \E level \in AppConfidenceInputs : SetConfidence(level)
    \/ \E i \in 1..Len(currentConceptData.knowledgeChecks) :
          \E optIdx \in OptionInputs(currentConceptData.knowledgeChecks[i]) :
             AnswerCheck(currentConceptData.knowledgeChecks[i], optIdx)
    \/ \E timeSpent \in AppTimeSpentInputs : handleNext(timeSpent)
    \/ handlePrevious
    \/ ReviewAgain
    \/ \E button \in OverrideButtons, timeSpent \in AppTimeSpentInputs : Override(button, timeSpent)
    \/ ExploreAgain
    \/ ChatsSent < MaxChats /\ handleAiChat
    \/ \E content \in {"reply", "error"} : ChatSettled(content)

Spec == Init /\ [][Next]_vars

----------------------------------------------------------------------------
(* Chat specification: the application with its chat requests, for a        *)
(* learner who leaves the confidence at 3 and answers every knowledge check *)
(* correctly                                                                *)

AnswerCorrectly ==
    \E i \in 1..Len(currentConceptData.knowledgeChecks) :
        AnswerCheck(currentConceptData.knowledgeChecks[i],
                    currentConceptData.knowledgeChecks[i].correct)

NextChat ==
    \/ BeginJourney
    \/ AnswerCorrectly
    \/ \E timeSpent \in AppTimeSpentInputs : handleNext(timeSpent)
    \/ handlePrevious
    \/ ChatsSent < MaxIOChats /\ handleAiChat
    \/ \E content \in {"reply", "error"} : ChatSettled(content)

SpecChat == Init /\ [][NextChat]_vars

----------------------------------------------------------------------------
(* Collaborator specification: the same learner, with the chat, speech and  *)
(* feedback requests of the application                                     *)

NextIO ==
    \/ BeginJourney
    \/ AnswerCorrectly
    \/ \E timeSpent \in AppTimeSpentInputs : handleNext(timeSpent)
    \/ handlePrevious
    \/ ChatsSent < MaxChats /\ handleAiChat
    \/ \E content \in {"reply", "error"} : ChatSettled(content)
    \/ toggleVoice
    \/ \E request \in ttsPending, outcome \in SpeechOutcomes : SpeechSettled(request, outcome)
    \/ \E audio \in playing : AudioEnded(audio)
    \/ submitFeedback
    \/ \E outcome \in FeedbackOutcomes : FeedbackSettled(outcome)
    \/ FeedbackSuccessExpires

SpecIO == Init /\ [][NextIO]_vars

----------------------------------------------------------------------------
(* useTextToSpeech: a hook instance driven through speak() and stop()       *)

\* playAudio(audioDataUrl): the Audio element in audioRef is paused, a new one
\* is stored there and played
playAudio(t, audio) ==
    [t EXCEPT !.playing = (@ \ {t.audioRef}) \cup {audio},
              !.audioRef = audio,
              !.isPlaying = TRUE]

\* the texts spoken in the specification, as character sequences: a short one,
\* and two that differ only behind their first 100 characters
CacheKeyLength == 100
Opening == [i \in 1..CacheKeyLength |-> "e"]
TextInputs == {<<"H", "i">>, Opening \o <<"1">>, Opening \o <<"2">>}

\* text.slice(0, 100)
cacheKey(text) ==
    SubSeq(text, 1, IF Len(text) < CacheKeyLength THEN Len(text) ELSE CacheKeyLength)

\* cacheRef.current.has(key), .get(key), .set(key, audio); an audio data URL is
\* identified by the text it was synthesized from
CacheHas(cache, key) == \E e \in cache : e.key = key
CacheGet(cache, key) == (CHOOSE e \in cache : e.key = key).audio
CacheSet(cache, key, audio) == {e \in cache : e.key # key} \cup {[key |-> key, audio |-> audio]}

\* speak(text, useCache) up to its fetch, or to playAudio for a cached text
Speak(text, useCache) ==
    /\ tts.issued < MaxSpeech
    /\ LET cached == useCache /\ CacheHas(tts.cache, cacheKey(text))
           id == tts.issued + 1
           called == [tts EXCEPT !.issued = id]
       IN  tts' = IF cached
                  THEN playAudio(called, [id |-> id, text |-> text,
                                          audio |-> CacheGet(tts.cache, cacheKey(text)),
                                          awaited |-> FALSE])
                  ELSE [called EXCEPT !.isLoading = TRUE, !.error = NULL,
                                      !.pending = @ \cup {[id |-> id, text |-> text,
                                                           useCache |-> useCache]}]
    /\ UNCHANGED <<analytics, recommendations, currentScreen, currentModule, currentConcept,
                   confidenceLevel, knowledgeCheckAnswers, showAdaptiveHelp,
                   adaptiveHelpContent, chatHistory, isAiThinking, progress>>
    /\ UNCHANGED <<chatPending, speechVars, feedbackVars, extVars>>

\* speak() after its fetch: the audio synthesized from the text is cached and
\* played, or the error is stored and isLoading cleared
SpeakSettled(request, outcome) ==
    /\ request \in tts.pending
    /\ LET settled == [tts EXCEPT !.pending = @ \ {request}]
       IN  tts' = IF outcome = "ok"
                  THEN playAudio([settled EXCEPT
                                     !.cache = IF request.useCache
                                               THEN CacheSet(@, cacheKey(request.text),
                                                             request.text)
                                               ELSE @],
                                 [id |-> request.id, text |-> request.text,
                                  audio |-> request.text, awaited |-> TRUE])
                  ELSE [settled EXCEPT !.error = "error", !.isLoading = FALSE]
    /\ UNCHANGED <<analytics, recommendations, currentScreen, currentModule, currentConcept,
                   confidenceLevel, knowledgeCheckAnswers, showAdaptiveHelp,
                   adaptiveHelpContent, chatHistory, isAiThinking, progress>>
    /\ UNCHANGED <<chatPending, speechVars, feedbackVars, extVars>>

\* audio.onended of an Audio element playAudio() started: the promise resolves,
\* and the finally of a speak() that awaits it clears isLoading
SpeakEnded(audio) ==
    /\ audio \in tts.playing
    /\ tts' = [tts EXCEPT !.playing = @ \ {audio}, !.isPlaying = FALSE,
                          !.isLoading = IF audio.awaited THEN FALSE ELSE @]
    /\ UNCHANGED <<analytics, recommendations, currentScreen, currentModule, currentConcept,
                   confidenceLevel, knowledgeCheckAnswers, showAdaptiveHelp,
                   adaptiveHelpContent, chatHistory, isAiThinking, progress>>
    /\ UNCHANGED <<chatPending, speechVars, feedbackVars, extVars>>

\* stop()
Stop ==
    /\ tts.audioRef # NoAudio
    /\ tts' = [tts EXCEPT !.playing = @ \ {tts.audioRef}, !.audioRef = NoAudio,
                          !.isPlaying = FALSE]
    /\ UNCHANGED <<analytics, recommendations, currentScreen, currentModule, currentConcept,
                   confidenceLevel, knowledgeCheckAnswers, showAdaptiveHelp,
                   adaptiveHelpContent, chatHistory, isAiThinking, progress>>
    /\ UNCHANGED <<chatPending, speechVars, feedbackVars, extVars>>

NextTts ==
    \/ \E text \in TextInputs, useCache \in BOOLEAN : Speak(text, useCache)
    \/ \E request \in tts.pending, outcome \in SpeechOutcomes : SpeakSettled(request, outcome)
    \/ \E audio \in tts.playing : SpeakEnded(audio)
    \/ Stop

SpecTts == InitLA /\ [][NextTts]_vars

----------------------------------------------------------------------------
(* api/feedback.ts: the serverless function, one request at a time          *)

\* !v of a string-or-undefined value
Falsy(v) == ~v.defined \/ v.value = ""

Respond(a, status, body, feedback) ==
    [a EXCEPT !.response = [status |-> status, body |-> body, feedback |-> feedback]]

\* handleSubmitFeedback(req, res)
handleSubmitFeedback(a, req) ==
    IF Falsy(req.body.type) \/ Falsy(req.body.sessionId)
    THEN Respond(a, 400, "Missing required fields: type and sessionId", <<>>)
    ELSE Respond([a EXCEPT !.feedbackStore = Append(@, req.body)],
                 200, "Thank you for your feedback!", <<>>)

\* handleGetFeedback(req, res)
handleGetFeedback(a, req) ==
    IF req.adminKeyHeader # a.ADMIN_KEY
    THEN Respond(a, 401, "Unauthorized", <<>>)
    ELSE Respond(a, 200, "feedback", a.feedbackStore)

\* handler(req, res)
handler(a, req) ==
    IF req.method = "OPTIONS" THEN Respond(a, 200, NULL, <<>>)
    ELSE IF req.method = "POST" THEN handleSubmitFeedback(a, req)
    ELSE IF req.method = "GET" THEN handleGetFeedback(a, req)
    ELSE Respond(a, 405, "Method not allowed", <<>>)

AdminKeyInputs == {Undefined, Str("secret")}
HeaderInputs == {Undefined, Str("secret"), Str("guess")}
BodyInputs ==
    {[type |-> t, sessionId |-> sid, rating |-> r] :
        t \in {Undefined, Str("rating"), Str("comment")}, sid \in {Undefined, Str("session-1")},
        r \in {0, 1}}
RequestInputs ==
    {[method |-> m, adminKeyHeader |-> h, body |-> b] :
        m \in {"OPTIONS", "POST", "GET", "DELETE"}, h \in HeaderInputs, b \in BodyInputs}

InitApi ==
    /\ analytics = NewLearningAnalytics
    /\ recommendations = <<>>
    /\ AppUnmounted
    /\ \E adminKey \in AdminKeyInputs : api = NewFeedbackApi(adminKey)

Handler(req) ==
    /\ Len(api.feedbackStore) < MaxStored \/ req.method # "POST"
    /\ api' = handler(api, req)
    /\ UNCHANGED <<analytics, recommendations, currentScreen, currentModule, currentConcept,
                   confidenceLevel, knowledgeCheckAnswers, showAdaptiveHelp,
                   adaptiveHelpContent, chatHistory, isAiThinking, progress>>
    /\ UNCHANGED <<chatPending, speechVars, feedbackVars, tts, chatHook>>

NextApi == \E req \in RequestInputs : Handler(req)

SpecApi == InitApi /\ [][NextApi]_vars

----------------------------------------------------------------------------
(* useChat: a hook instance driven through sendMessage() and clearHistory() *)

HistoryLimit == 20

MessageInputs == {"what is an electron", "why eight"}

\* the history is never cut
LastMessages_NoCut(history, n) == history

\* conversationHistory.current.slice(-20)
LastMessages(history, n) ==
    IF Len(history) > n THEN SubSeq(history, Len(history) - n + 1, Len(history)) ELSE history

\* the two messages sendMessage pushes for a request and its reply
Exchange(message) ==
    <<[role |-> "user", content |-> message],
      [role |-> "assistant", content |-> message]>>

\* s without its i-th element
RemoveAt(s, i) == SubSeq(s, 1, i - 1) \o SubSeq(s, i + 1, Len(s))

\* sendMessage(message) up to its fetch
SendMessage(message) ==
    /\ Len(chatHook.pending) < MaxOutstanding
    /\ chatHook' = [chatHook EXCEPT
                       !.isLoading = TRUE,
                       !.error = NULL,
                       !.pending = Append(@, message)]
    /\ UNCHANGED <<analytics, recommendations, currentScreen, currentModule, currentConcept,
                   confidenceLevel, knowledgeCheckAnswers, showAdaptiveHelp,
                   adaptiveHelpContent, chatHistory, isAiThinking, progress>>
    /\ UNCHANGED <<chatPending, speechVars, feedbackVars, tts, api>>

ChatOutcomes == {"ok", "failed"}

\* sendMessage() after its fetch, for the i-th of the outstanding calls: the
\* exchange is pushed and the history cut to its last 20 messages, or the
\* error is stored and rethrown; isLoading is cleared either way
SendSettled(i, outcome) ==
    /\ i \in 1..Len(chatHook.pending)
    /\ LET message == chatHook.pending[i]
           done == [chatHook EXCEPT !.pending = RemoveAt(@, i), !.isLoading = FALSE]
           pushed == chatHook.conversationHistory \o Exchange(message)
       IN  chatHook' =
              IF outcome = "ok"
              THEN [done EXCEPT
                      !.conversationHistory = LastMessages(pushed, HistoryLimit),
                      !.settled = [message |-> message, state |-> "resolved",
                                   overtook |-> i > 1,
                                   cut |-> Len(pushed) - Len(LastMessages(pushed, HistoryLimit))]]
              ELSE [done EXCEPT
                      !.error = "error",
                      !.settled = [message |-> message, state |-> "rejected",
                                   overtook |-> i > 1, cut |-> 0]]
    /\ UNCHANGED <<analytics, recommendations, currentScreen, currentModule, currentConcept,
                   confidenceLevel, knowledgeCheckAnswers, showAdaptiveHelp,
                   adaptiveHelpContent, chatHistory, isAiThinking, progress>>
    /\ UNCHANGED <<chatPending, speechVars, feedbackVars, tts, api>>

\* clearHistory()
ClearHistory ==
    /\ chatHook' = [chatHook EXCEPT !.conversationHistory = <<>>]
    /\ UNCHANGED <<analytics, recommendations, currentScreen, currentModule, currentConcept,
                   confidenceLevel, knowledgeCheckAnswers, showAdaptiveHelp,
                   adaptiveHelpContent, chatHistory, isAiThinking, progress>>
    /\ UNCHANGED <<chatPending, speechVars, feedbackVars, tts, api>>

NextUseChat ==
    \/ \E message \in MessageInputs : SendMessage(message)
    \/ \E i \in 1..Len(chatHook.pending), outcome \in ChatOutcomes : SendSettled(i, outcome)
    \/ ClearHistory

SpecUseChat == InitLA /\ [][NextUseChat]_vars

----------------------------------------------------------------------------
(* Properties of the Concept Performance Aggregator                         *)

Perf == analytics.conceptPerformance
Profile == analytics.learnerProfile
PerfEntries == {Perf[i] : i \in 1..Len(Perf)}

\* x is a finite number with lo <= x <= hi
InRange(x, lo, hi) == IsFinite(x) /\ lo * x.d <= x.n /\ x.n <= hi * x.d

WellFormed(a) ==
    /\ a.confidence \in 1..5
    /\ 0 <= a.questionsCorrect
    /\ a.questionsCorrect <= a.questionsTotal

AllAttempts(p, ok(_)) == \A j \in 1..Len(p.attempts) : ok(p.attempts[j])

\* C1: for every concept whose attempts all have confidence in 1..5 and
\* 0 <= questionsCorrect <= questionsTotal, questionAccuracy lies in [0,1] and
\* averageConfidence lies in [1,5].
C1_AggregatesInRange ==
    \A p \in PerfEntries :
        AllAttempts(p, WellFormed) =>
            /\ InRange(p.questionAccuracy, 0, 1)
            /\ InRange(p.averageConfidence, 1, 5)

\* sums over an attempt list, written out independently of the aggregate update
RECURSIVE TimeSum(_)
TimeSum(as) == IF as = <<>> THEN 0 ELSE Head(as).timeSpent + TimeSum(Tail(as))
RECURSIVE ConfSum(_)
ConfSum(as) == IF as = <<>> THEN 0 ELSE Head(as).confidence + ConfSum(Tail(as))
\* sum of questionsCorrect/questionsTotal as an unreduced pair <<numerator, denominator>>
RECURSIVE RatioSum(_)
RatioSum(as) ==
    IF as = <<>> THEN <<0, 1>>
    ELSE LET r == RatioSum(Tail(as))
             a == Head(as)
         IN  <<r[1] * a.questionsTotal + a.questionsCorrect * r[2], r[2] * a.questionsTotal>>

HasQuestions(a) == a.questionsTotal > 0

AttemptsOf(an, conceptId) ==
    IF HasPerf(an.conceptPerformance, conceptId)
    THEN an.conceptPerformance[PerfIndex(an.conceptPerformance, conceptId)].attempts
    ELSE <<>>

C7_Aggregates ==
    \A p \in PerfEntries :
        AllAttempts(p, HasQuestions) =>
            LET k == Len(p.attempts)
                r == RatioSum(p.attempts)
            IN  /\ k > 0
                /\ p.totalTime = TimeSum(p.attempts)
                /\ IsFinite(p.averageConfidence)
                /\ p.averageConfidence.n * k = ConfSum(p.attempts) * p.averageConfidence.d
                /\ IsFinite(p.questionAccuracy)
                /\ p.questionAccuracy.n * r[2] * k = r[1] * p.questionAccuracy.d
                /\ p.revisits = k - 1

C7_OneAttemptAppended ==
    NumAttempts(analytics') > NumAttempts(analytics) =>
        \E conceptId \in ConceptIds :
            /\ Len(AttemptsOf(analytics', conceptId)) = Len(AttemptsOf(analytics, conceptId)) + 1
            /\ SubSeq(AttemptsOf(analytics', conceptId), 1, Len(AttemptsOf(analytics, conceptId)))
                  = AttemptsOf(analytics, conceptId)
            /\ \A i \in 1..Len(Perf) : Perf[i].id # conceptId => analytics'.conceptPerformance[i] = Perf[i]
            /\ Len(analytics'.conceptPerformance) =
                  Len(Perf) + (IF HasPerf(Perf, conceptId) THEN 0 ELSE 1)

\* C7: for every concept whose attempts all have questionsTotal > 0, totalTime is
\* the sum of timeSpent, averageConfidence the mean confidence, questionAccuracy
\* the mean of questionsCorrect/questionsTotal and revisits the number of
\* attempts minus one; a trackConceptAttempt call appends exactly one attempt to
\* its concept and leaves every other concept's record as it was.
C7_AggregatesMatchDefinition == []C7_Aggregates /\ [][C7_OneAttemptAppended]_vars

\* a revisited concept, with another event logged between or around its attempts
C7_Witness ==
    /\ Len(analytics.events) > NumAttempts(analytics)
    /\ \E p \in PerfEntries : Len(p.attempts) = 2 /\ AllAttempts(p, HasQuestions) /\ p.revisits = 1

\* the mean of the per-attempt ratios, a ratio being 1 when questionsTotal = 0
RECURSIVE NormalizedRatioSum(_)
NormalizedRatioSum(as) ==
    IF as = <<>> THEN <<0, 1>>
    ELSE LET r == NormalizedRatioSum(Tail(as))
             a == Head(as)
         IN  IF a.questionsTotal = 0 THEN <<r[1] + r[2], r[2]>>
             ELSE <<r[1] * a.questionsTotal + a.questionsCorrect * r[2], r[2] * a.questionsTotal>>

NoQuestions(a) == a.questionsTotal = 0

\* C8: an attempt with questionsTotal = 0 counts as a ratio of 1 in the mean, so
\* questionAccuracy stays a number in [0,1], and for a concept without questions
\* it equals the gate's knowledge-check score (1).
C8_ZeroTotalCountsAsOne ==
    \A p \in PerfEntries :
        AllAttempts(p, WellFormed) =>
            LET k == Len(p.attempts)
                r == NormalizedRatioSum(p.attempts)
            IN  /\ InRange(p.questionAccuracy, 0, 1)
                /\ p.questionAccuracy.n * r[2] * k = r[1] * p.questionAccuracy.d
                /\ AllAttempts(p, NoQuestions) =>
                      p.questionAccuracy = calculateKnowledgeCheckScore(<<>>, <<>>)

----------------------------------------------------------------------------
(* Properties of the Learner Profile Estimator and the recommendations      *)

\* C2: no concept id is in both strengthAreas and struggleAreas.
C2_StrengthsStrugglesDisjoint ==
    Range(Profile.strengthAreas) \cap Range(Profile.struggleAreas) = {}

C2_Witness == Profile.strengthAreas # <<>> /\ Profile.struggleAreas # <<>>

\* C9: once an event has been logged, strengthAreas holds exactly the concepts
\* of the performance map with averageConfidence >= 4 and questionAccuracy >= 0.8
\* and struggleAreas exactly those with averageConfidence <= 2 or
\* questionAccuracy < 0.5, each listed once.
C9_AreasMatchPerformance ==
    Len(analytics.events) > 0 =>
        /\ Range(Profile.strengthAreas) =
              {p.id : p \in {q \in PerfEntries :
                  Ge(q.averageConfidence, 4, 1) /\ Ge(q.questionAccuracy, 4, 5)}}
        /\ Range(Profile.struggleAreas) =
              {p.id : p \in {q \in PerfEntries :
                  Le(q.averageConfidence, 2, 1) \/ Lt(q.questionAccuracy, 1, 2)}}
        /\ Len(Profile.strengthAreas) = Cardinality(Range(Profile.strengthAreas))
        /\ Len(Profile.struggleAreas) = Cardinality(Range(Profile.struggleAreas))

\* a concept whose first attempt alone made it a strength and which a later
\* attempt removed from the list
C9_Witness ==
    \E p \in PerfEntries :
        /\ Len(p.attempts) >= 2
        /\ p.attempts[1].confidence >= 4
        /\ p.attempts[1].questionsTotal > 0
        /\ p.attempts[1].questionsCorrect = p.attempts[1].questionsTotal
        /\ p.id \notin Range(Profile.strengthAreas)

\* C10: once an event has been logged, pacePreference is 'fast' when the mean
\* totalTime over the attempted concepts is below 60000 ms, 'slow' when it is
\* above 180000 ms and 'medium' otherwise, and 'medium' when no concept has been
\* attempted.
C10_PaceFromMeanTime ==
    Len(analytics.events) > 0 =>
        LET k == Len(Perf)
            total == SumTotalTime(Perf)
        IN  Profile.pacePreference =
                IF k = 0 THEN "medium"
                ELSE IF total < 60000 * k THEN "fast"
                ELSE IF total > 180000 * k THEN "slow"
                ELSE "medium"

\* a mean of exactly 180000 ms, classified 'medium'
C10_Witness ==
    /\ Len(Perf) > 0
    /\ SumTotalTime(Perf) = 180000 * Len(Perf)
    /\ Profile.pacePreference = "medium"

RecTypes(recs) == [i \in 1..Len(recs) |-> recs[i].type]

C5_Expected(recs, profile) ==
    /\ RecTypes(recs) =
          (IF profile.struggleAreas # <<>> THEN <<"review">> ELSE <<>>)
          \o (IF profile.pacePreference = "slow" THEN <<"pace">> ELSE <<>>)
          \o (IF profile.learningStyle = "visual" THEN <<"style">> ELSE <<>>)
    /\ \A i \in 1..Len(recs) :
          /\ recs[i].type = "review" => recs[i].priority = "high" /\ recs[i].areas = profile.struggleAreas
          /\ recs[i].type = "pace" => recs[i].priority = "medium"
          /\ recs[i].type = "style" => recs[i].priority = "low"
    /\ (profile.struggleAreas = <<>> /\ profile.pacePreference = "medium"
           /\ profile.learningStyle = "mixed") => recs = <<>>

\* C5: a getRecommendations call returns exactly the rules that fire, in the
\* order review (high, iff struggleAreas is non-empty), pace (medium, iff pace is
\* 'slow'), style (low, iff style is 'visual'), hence the empty list for no
\* struggles, pace 'medium' and style 'mixed', and leaves the analytics state
\* (profile included) unchanged.
C5_Recommendations ==
    [][GetRecommendations =>
          /\ C5_Expected(recommendations', Profile)
          /\ analytics' = analytics]_vars

\* all three rules fired in one call
C5_Witness == Len(recommendations) = 3

\* C6: once the estimator has run, the profile is the one a fresh instance
\* computes from the same event log and performance map, and running
\* analyzePatterns again leaves it unchanged.
C6_ProfileDeterministic ==
    Profile.pacePreference # NULL =>
        /\ Profile = analyzePatterns([analytics EXCEPT
                        !.learnerProfile = NewLearningAnalytics.learnerProfile]).learnerProfile
        /\ analyzePatterns(analytics) = analytics

\* a strength, a chat message and a confidence event behind the profile
C6_Witness ==
    /\ Len(Perf) >= 1
    /\ Profile.strengthAreas # <<>>
    /\ Profile.engagementLevel = "high"
    /\ Profile.learningStyle = "reading"

----------------------------------------------------------------------------
(* Properties of the Navigation Gate                                        *)

NextInvoked == \E timeSpent \in AppTimeSpentInputs : handleNext(timeSpent)

CurrentChecks == currentConceptData.knowledgeChecks
CurrentCorrect == CorrectCount(CurrentChecks, knowledgeCheckAnswers)

\* confidence <= 2 or accuracy < 0.5 on the current concept
BelowThreshold == confidenceLevel <= 2 \/ 2 * CurrentCorrect < Len(CurrentChecks)

\* C3: 'next' with confidence <= 2 or accuracy < 0.5 shows the adaptive help and
\* does not advance: screen and position stay, and nothing is recorded (no
\* attempt, no event, no progress entry).
C3_GateBlocks ==
    [][(NextInvoked /\ BelowThreshold) =>
          /\ showAdaptiveHelp'
          /\ adaptiveHelpContent' # NoHelp
          /\ currentScreen' = currentScreen
          /\ currentModule' = currentModule
          /\ currentConcept' = currentConcept
          /\ progress' = progress
          /\ analytics' = analytics]_vars

\* help shown for confidence 2 and accuracy 0, still on the learning screen
C3_Witness ==
    /\ currentScreen = "learning"
    /\ ModalShown
    /\ confidenceLevel = 2
    /\ Cardinality(DOMAIN knowledgeCheckAnswers) = Len(CurrentChecks)
    /\ CurrentCorrect = 0
    /\ progress.completedConcepts = 0

\* C4: 'next' with confidence >= 3 and accuracy >= 0.5 shows no adaptive help,
\* records exactly one attempt, for the current concept, and moves to the next
\* concept of the module, else to the first concept of the next module, else to
\* the completion screen.
C4_GatePasses ==
    [][(NextInvoked /\ ~BelowThreshold) =>
          /\ ~showAdaptiveHelp'
          /\ adaptiveHelpContent' = NoHelp
          /\ NumAttempts(analytics') = NumAttempts(analytics) + 1
          /\ Len(AttemptsOf(analytics', currentConceptData.id)) =
                Len(AttemptsOf(analytics, currentConceptData.id)) + 1
          /\ IF currentConcept + 1 < Len(modules[currentModule + 1])
             THEN /\ currentScreen' = "learning"
                  /\ currentModule' = currentModule
                  /\ currentConcept' = currentConcept + 1
             ELSE IF currentModule + 1 < Len(modules)
             THEN /\ currentScreen' = "learning"
                  /\ currentModule' = currentModule + 1
                  /\ currentConcept' = 0
             ELSE currentScreen' = "complete"]_vars

\* the completion screen entered by a passing 'next' on the last concept
C4_Witness ==
    /\ currentScreen = "complete"
    /\ adaptiveHelpContent = NoHelp
    /\ progress.completedConcepts = TotalConcepts

----------------------------------------------------------------------------
(* Properties of the Learner Profile Estimator on the event log             *)

Events == analytics.events
IndicesOf(types) == {i \in 1..Len(Events) : Events[i].eventType \in types}
CountOf(types) == Cardinality(IndicesOf(types))

\* C11: once an event has been logged, learningStyle is 'visual' when the
\* visual interactions of the whole log number more than twice its chat
\* messages, 'reading' when the chat messages number more than twice the visual
\* interactions, and 'mixed' otherwise, both counts being zero included.
C11_StyleFromFullLog ==
    Len(Events) > 0 =>
        Profile.learningStyle =
            (IF CountOf(VisualEventTypes) > 2 * CountOf(ChatEventTypes) THEN "visual"
             ELSE IF CountOf(ChatEventTypes) > 2 * CountOf(VisualEventTypes) THEN "reading"
             ELSE "mixed")

\* exactly twice as many visual interactions as chat messages, of both kinds
C11_Witness ==
    /\ CountOf(ChatEventTypes) = 2
    /\ CountOf(VisualEventTypes) = 4
    /\ CountOf({"3d_rotation"}) = 2
    /\ Profile.learningStyle = "mixed"

\* the last 5 confidence_set events of the log, by position
LastConfidenceIndices ==
    LET I == IndicesOf(ConfidenceEventTypes)
    IN  {i \in I : Cardinality({j \in I : j > i}) < 5}

RECURSIVE LevelSum(_)
LevelSum(I) ==
    IF I = {} THEN 0
    ELSE LET i == CHOOSE k \in I : TRUE IN Events[i].level + LevelSum(I \ {i})

\* C12: once an event has been logged, engagementLevel is 'high' when the mean
\* level of the last 5 confidence_set events (of all of them when there are
\* fewer) is at least 4, 'low' when it is at most 2 and 'medium' otherwise, and
\* it is the initial 'medium' while no confidence_set event has been logged.
C12_EngagementFromLastFive ==
    Len(Events) > 0 =>
        LET I == LastConfidenceIndices
            n == Cardinality(I)
        IN  Profile.engagementLevel =
                (IF n = 0 THEN "medium"
                 ELSE IF LevelSum(I) >= 4 * n THEN "high"
                 ELSE IF LevelSum(I) <= 2 * n THEN "low"
                 ELSE "medium")

\* six confidence_set events: the oldest one, outside the window, would pull
\* the mean of all six below 4
C12_Witness ==
    /\ CountOf(ConfidenceEventTypes) = 6
    /\ Events[1].level = 1
    /\ LevelSum(IndicesOf(ConfidenceEventTypes)) < 4 * 6
    /\ Profile.engagementLevel = "high"

----------------------------------------------------------------------------
(* Properties of the Adaptive Help Modal                                    *)

\* C13: whenever the Adaptive Help Modal is shown, its content has a message
\* and an alternative explanation of the current concept, whichever of low
\* confidence and low accuracy made 'next' block.
C13_HelpHasAlternative ==
    ModalShown =>
        /\ adaptiveHelpContent.message # ""
        /\ adaptiveHelpContent.alternativeExplanation # ""

OverrideInvoked == \E button \in OverrideButtons, timeSpent \in AppTimeSpentInputs :
                       Override(button, timeSpent)

PositionChanged ==
    \/ currentScreen' # currentScreen
    \/ currentModule' # currentModule
    \/ currentConcept' # currentConcept

\* the position after the current one: next concept, next module, or Complete
MovedForward ==
    IF currentConcept + 1 < Len(modules[currentModule + 1])
    THEN currentScreen' = "learning" /\ currentModule' = currentModule
         /\ currentConcept' = currentConcept + 1
    ELSE IF currentModule + 1 < Len(modules)
    THEN currentScreen' = "learning" /\ currentModule' = currentModule + 1
         /\ currentConcept' = 0
    ELSE currentScreen' = "complete"

Remediating == currentScreen = "learning" /\ ModalShown

\* C14: while the Adaptive Help Modal is shown the position changes only by
\* an override; 'Review Again' hides the modal and leaves position, answers,
\* confidence, analytics and progress as they were; an override records exactly
\* one attempt, for the current concept, moves forward as a passing 'next'
\* does, resets confidence to 3 and clears answers and chat history.
C14_RemediationChoices ==
    [][Remediating =>
          /\ PositionChanged => OverrideInvoked
          /\ ReviewAgain =>
                /\ ~PositionChanged
                /\ ~showAdaptiveHelp'
                /\ knowledgeCheckAnswers' = knowledgeCheckAnswers
                /\ confidenceLevel' = confidenceLevel
                /\ analytics' = analytics
                /\ progress' = progress
          /\ OverrideInvoked =>
                /\ NumAttempts(analytics') = NumAttempts(analytics) + 1
                /\ Len(AttemptsOf(analytics', currentConceptData.id)) =
                      Len(AttemptsOf(analytics, currentConceptData.id)) + 1
                /\ progress'.completedConcepts = progress.completedConcepts + 1
                /\ MovedForward
                /\ ~showAdaptiveHelp'
                /\ confidenceLevel' = 3
                /\ knowledgeCheckAnswers' = <<>>
                /\ chatHistory' = <<>>]_vars

\* the second concept reached by an override: one attempt recorded, and the
\* help content of the first concept still set
C14_Witness ==
    /\ currentScreen = "learning"
    /\ currentConcept = 1
    /\ ~showAdaptiveHelp
    /\ adaptiveHelpContent # NoHelp
    /\ NumAttempts(analytics) = 1
    /\ progress.completedConcepts = 1
    /\ progress.needsWork # <<>>

----------------------------------------------------------------------------
(* Properties of the completion screen                                      *)

\* on the completion screen no Next, Previous or override can be invoked
C15_NoNavigationInComplete ==
    currentScreen = "complete" =>
        /\ ~ENABLED NextInvoked
        /\ ~ENABLED handlePrevious
        /\ ~ENABLED OverrideInvoked
        /\ ~ENABLED ReviewAgain

\* the completion screen is left only by 'Explore Again', to the welcome screen
\* at the first concept, and the learning screen is entered only from the
\* welcome screen by 'Begin Quantum Journey'
C15_LeftOnlyByReset ==
    /\ currentScreen = "complete" =>
          \/ ExploreAgain /\ currentScreen' = "welcome"
                          /\ currentModule' = 0 /\ currentConcept' = 0
          \/ UNCHANGED <<currentScreen, currentModule, currentConcept, confidenceLevel,
                         knowledgeCheckAnswers, analytics, progress>>
    /\ (currentScreen # "learning" /\ currentScreen' = "learning") =>
          currentScreen = "welcome" /\ BeginJourney

\* C15: once the screen is 'complete' no Next, Previous or override is enabled,
\* no concept becomes current again until 'Explore Again' has restarted the
\* session at the welcome screen, and nothing else changes the position.
C15_CompleteIsTerminal == []C15_NoNavigationInComplete /\ [][C15_LeftOnlyByReset]_vars

\* the first concept current again after the whole catalog was completed
C15_Witness ==
    /\ currentScreen = "learning"
    /\ currentModule = 0
    /\ currentConcept = 0
    /\ Len(progress.conceptHistory) = TotalConcepts
    /\ progress.conceptHistory[TotalConcepts].id = CatalogIds[TotalConcepts]

----------------------------------------------------------------------------
(* Properties of the chat, speech and feedback collaborators                *)

\* C16: at most one chat request of handleAiChat is outstanding at any time,
\* and no step adds a request while one is outstanding, whatever the order of
\* sends, navigation and responses.
C16_OneChatOutstanding ==
    /\ [](chatPending <= 1)
    /\ [](chatPending > 0 => isAiThinking)
    /\ [][chatPending > 0 => chatPending' <= chatPending]_vars

\* a request still outstanding after the learner moved on to the second
\* concept, where a new send is refused although the conversation is empty
C16_Witness ==
    /\ chatPending = 1
    /\ ChatsSent = 1
    /\ currentConcept = 1
    /\ chatHistory = <<>>
    /\ OnLearningScreen
    /\ ~ENABLED handleAiChat

\* C17: at most one speech request is outstanding at any time, in the
\* application's speakText and in the useTextToSpeech hook's speak.
C17_OneSpeechOutstanding ==
    /\ Cardinality(ttsPending) <= 1
    /\ Cardinality(tts.pending) <= 1

\* C18: at most one narration plays at a time, and a narration that starts
\* playing is that of the most recent request, never that of a request another
\* one has superseded.
C18_LatestNarrationPlays ==
    /\ [](Cardinality(tts.playing) <= 1 /\ Cardinality(playing) <= 1)
    /\ [][/\ \A audio \in tts'.playing \ tts.playing : audio.id = tts'.issued
          /\ \A audio \in playing' \ playing : audio.id = ttsIssued']_vars

\* C19: no narration plays while voice is off or away from the learning
\* screen, and a narration that plays is that of the current concept: one
\* requested before the learner toggled voice off or navigated away neither
\* continues nor starts, even if its response arrives afterwards.
C19_SpeechCancelled ==
    \A audio \in playing :
        /\ voiceEnabled
        /\ currentScreen = "learning"
        /\ audio.text = currentConceptData.id

ChatFailed == ChatSettled("error")
SpeechFailed == \E request \in ttsPending : SpeechSettled(request, "failed")
FeedbackFailed == FeedbackSettled("not-ok") \/ FeedbackSettled("failed")

\* what the learner is shown, the three busy indicators aside
LearnerSees ==
    <<currentScreen, currentModule, currentConcept, confidenceLevel, knowledgeCheckAnswers,
      showAdaptiveHelp, adaptiveHelpContent, chatHistory, progress, voiceEnabled, isSpeaking,
      feedbackSuccess>>

\* the session state a failed call must leave alone; of the conversation, the
\* messages it held
SessionState ==
    <<currentScreen, currentModule, currentConcept, confidenceLevel, knowledgeCheckAnswers,
      analytics.conceptPerformance, progress>>

\* C20: when a chat, speech or feedback request fails, the learner is shown an
\* error, the screen, position, confidence, answers, performance map and
\* progress stay as they were, the conversation keeps its messages, and the
\* busy flag of the failed collaborator is cleared.
C20_FailureSurfacedStateKept ==
    [][(ChatFailed \/ SpeechFailed \/ FeedbackFailed) =>
          /\ LearnerSees' # LearnerSees
          /\ SessionState' = SessionState
          /\ SubSeq(chatHistory', 1, Len(chatHistory)) = chatHistory
          /\ ChatFailed => ~isAiThinking'
          /\ SpeechFailed => ~voiceLoading'
          /\ FeedbackFailed => ~feedbackSubmitting']_vars

----------------------------------------------------------------------------
(* Properties of the feedback endpoint                                      *)

\* the request carries an x-admin-key header equal to the configured admin key
Authorised(req) ==
    /\ req.adminKeyHeader.defined
    /\ api.ADMIN_KEY.defined
    /\ req.adminKeyHeader.value = api.ADMIN_KEY.value

\* C21: a GET on /api/feedback answers 200 with the stored feedback when the
\* request carries an x-admin-key header equal to the configured admin key, and
\* 401 with no feedback otherwise, whether ADMIN_KEY is set or unset and whether
\* the header is absent, matching or non-matching.
C21_FeedbackAdminOnly ==
    [][\A req \in RequestInputs :
          (req.method = "GET" /\ Handler(req)) =>
              IF Authorised(req)
              THEN api'.response.status = 200 /\ api'.response.feedback = api.feedbackStore
              ELSE api'.response.status = 401 /\ api'.response.feedback = <<>>]_vars

----------------------------------------------------------------------------
(* Properties of the useChat hook                                           *)

History == chatHook.conversationHistory

\* at most 20 messages, in user/assistant pairs of one exchange each
C22_HistoryBoundedPairs ==
    /\ Len(History) <= 20
    /\ Len(History) % 2 = 0
    /\ \A i \in 1..Len(History) :
          IF i % 2 = 1
          THEN History[i].role = "user"
          ELSE /\ History[i].role = "assistant"
               /\ History[i].content = History[i - 1].content

\* a successful sendMessage appends its exchange behind the messages kept, a
\* failed one leaves the history alone, stores the error and rejects
C22_SettleStep ==
    \A i \in 1..Len(chatHook.pending) :
        /\ SendSettled(i, "ok") =>
              LET n == Len(History')
                  kept == n - 2
              IN  /\ n = IF Len(History) + 2 > 20 THEN 20 ELSE Len(History) + 2
                  /\ History'[n - 1] = [role |-> "user", content |-> chatHook.pending[i]]
                  /\ History'[n].role = "assistant"
                  /\ SubSeq(History', 1, kept)
                        = SubSeq(History, Len(History) - kept + 1, Len(History))
                  /\ chatHook'.settled.state = "resolved"
        /\ SendSettled(i, "failed") =>
              /\ History' = History
              /\ chatHook'.error # NULL
              /\ chatHook'.settled.state = "rejected"

\* C22: the history of useChat holds at most 20 messages, is made of
\* user/assistant pairs in the order the requests completed, grows by one pair
\* per successful sendMessage, and is unchanged by a failed sendMessage, which
\* sets the error and rethrows.
C22_ChatHistory == []C22_HistoryBoundedPairs /\ [][C22_SettleStep]_vars

\* an eleventh exchange was pushed and the oldest one cut off, by a call that
\* completed before a call sent earlier, which is still outstanding
C22_Witness ==
    /\ Len(History) = 20
    /\ chatHook.settled.cut = 2
    /\ chatHook.settled.overtook
    /\ chatHook.pending # <<>>
    /\ History[19].content # chatHook.pending[1]

----------------------------------------------------------------------------
(* Properties of the progress record                                        *)

\* C23: in every reachable state of the application
\* progress.completedConcepts <= progress.totalConcepts.
C23_CompletedWithinTotal == progress.completedConcepts <= progress.totalConcepts

----------------------------------------------------------------------------
(* Properties of the position                                               *)

AtFirstConcept == currentModule = 0 /\ currentConcept = 0
AtLastConcept ==
    /\ currentModule = Len(ModuleSizes) - 1
    /\ currentConcept = ModuleSizes[Len(ModuleSizes)] - 1

\* (currentModule, currentConcept) indexes a concept of the catalog
C24_PositionInCatalog ==
    currentScreen = "learning" =>
        /\ currentModule \in 0..(Len(ModuleSizes) - 1)
        /\ currentConcept \in 0..(ModuleSizes[currentModule + 1] - 1)

\* Previous at the first concept, and Next or an override at the last concept,
\* leave the position where it is
C24_EdgesKeepPosition ==
    /\ (AtFirstConcept /\ handlePrevious) => UNCHANGED <<currentModule, currentConcept>>
    /\ (AtLastConcept /\ (NextInvoked \/ OverrideInvoked)) =>
          UNCHANGED <<currentModule, currentConcept>>

\* C24: while the screen is 'learning' the position indexes an existing concept
\* of the catalog, after any sequence of Next, Previous, override and restart
\* actions; Previous at the first concept and Next or override at the last
\* concept never move the position out of range.
C24_PositionInRange == []C24_PositionInCatalog /\ [][C24_EdgesKeepPosition]_vars

\* back on the last concept of the first module, by Previous from the second
\* module, which Next had entered
C24_Witness ==
    /\ currentScreen = "learning"
    /\ currentModule = 0
    /\ currentConcept = ModuleSizes[1] - 1
    /\ Len(progress.conceptHistory) = ModuleSizes[1]
    /\ knowledgeCheckAnswers = <<>>

----------------------------------------------------------------------------
(* Properties of the knowledge-check answers                                *)

AllAnswered ==
    DOMAIN knowledgeCheckAnswers = {CurrentChecks[i].id : i \in 1..Len(CurrentChecks)}

AttemptRecorded == NumAttempts(analytics') > NumAttempts(analytics)

\* C25: an attempt is recorded, and the position advances, only when every
\* knowledge check of the current concept has been answered; 'next' cannot be
\* invoked while fewer answers than questions exist; an answer once given is not
\* changed during the visit (the answers are only extended, or cleared together
\* when the visit ends); and the Adaptive Help Modal with its override buttons
\* appears only by a 'next' that was enabled and blocked by the gate.
C25_AnsweredBeforeAdvance ==
    [][/\ (AttemptRecorded \/ (currentScreen = "learning" /\ MovedForward)) => AllAnswered
       /\ NextInvoked => AllAnswered
       /\ \/ \A id \in DOMAIN knowledgeCheckAnswers :
                /\ id \in DOMAIN knowledgeCheckAnswers'
                /\ knowledgeCheckAnswers'[id] = knowledgeCheckAnswers[id]
          \/ /\ knowledgeCheckAnswers' = <<>>
             /\ AttemptRecorded \/ handlePrevious
       /\ OverrideInvoked => Remediating /\ AllAnswered
       /\ (~showAdaptiveHelp /\ showAdaptiveHelp') =>
             NextInvoked /\ AllAnswered /\ BelowThreshold]_vars

\* the first concept was recorded with both of its checks answered wrongly,
\* which only an override behind the gate does
C25_Witness ==
    /\ currentScreen = "learning"
    /\ Len(progress.conceptHistory) = 1
    /\ Lt(progress.conceptHistory[1].knowledgeCheckScore, 1, 2)
    /\ Len(AttemptsOf(analytics, CatalogIds[1])) = 1
    /\ AttemptsOf(analytics, CatalogIds[1])[1].questionsTotal = 2
    /\ AttemptsOf(analytics, CatalogIds[1])[1].questionsCorrect = 0
    /\ knowledgeCheckAnswers # <<>>

----------------------------------------------------------------------------
(* Properties of the attempt flags                                          *)

\* the attempt a step records, for the concept that is current before the step
RecordedAttempt ==
    LET attempts == AttemptsOf(analytics', currentConceptData.id)
    IN  attempts[Len(attempts)]

\* the learner sent a chat message during this visit: the chat history, which
\* every navigation clears, holds a message of theirs
AskedDuringVisit == \E i \in 1..Len(chatHistory) : chatHistory[i].role = "user"

\* C26: an attempt reports usedChat = true only if the learner sent a chat
\* message during that visit, and a reply or failure message that arrives after
\* the learner moved on is not added to the new concept's chat history (a
\* non-empty history starts with a message of the learner).
C26_UsedChatOnlyIfAsked ==
    /\ [](chatHistory # <<>> => chatHistory[1].role = "user")
    /\ [][AttemptRecorded => (RecordedAttempt.usedChat => AskedDuringVisit)]_vars

\* C27: the attempt an override records from the Adaptive Help Modal reports
\* triggeredAdaptiveHelp = true, and the attempt a passing 'next' records on a
\* visit without adaptive help reports triggeredAdaptiveHelp = false.
C27_HelpFlagMatchesGate ==
    [][AttemptRecorded =>
          /\ (Remediating /\ OverrideInvoked) => RecordedAttempt.triggeredAdaptiveHelp
          /\ (NextInvoked /\ adaptiveHelpContent = NoHelp) =>
                ~RecordedAttempt.triggeredAdaptiveHelp]_vars

----------------------------------------------------------------------------
(* Properties of the strengths and needs-work lists                         *)

NoDuplicates(s) == Cardinality(Range(s)) = Len(s)

\* C28: in every reachable state no concept title is in both progress.strengths
\* and progress.needsWork, and neither list holds a title twice.
C28_ListsDisjointNoDuplicates ==
    /\ Range(progress.strengths) \cap Range(progress.needsWork) = {}
    /\ NoDuplicates(progress.strengths)
    /\ NoDuplicates(progress.needsWork)

----------------------------------------------------------------------------
(* Properties of the events the application logs                            *)

AppEventTypes == {"session_start", "confidence_set", "chat_message", "concept_attempt"}

\* C29: the running application logs only session_start, confidence_set,
\* chat_message and concept_attempt events, never 'visual_interaction' or
\* '3d_rotation'; so learningStyle is 'mixed' or 'reading', never 'visual', and
\* getRecommendations() never returns the 'style' recommendation.
C29_NoVisualEvents ==
    /\ \A i \in 1..Len(Events) : Events[i].eventType \in AppEventTypes
    /\ Profile.learningStyle \in {"mixed", "reading"}
    /\ \A r \in Range(getRecommendations(Profile)) : r.type # "style"

\* every kind of event the application logs is in the log, and the style has
\* become 'reading'
C29_Witness ==
    /\ \A type \in AppEventTypes : CountOf({type}) > 0
    /\ CountOf({"confidence_set"}) > 1
    /\ Profile.learningStyle = "reading"
    /\ getRecommendations(Profile) # <<>>

----------------------------------------------------------------------------
(* Properties of the useTextToSpeech cache                                  *)

\* C30: the audio speak(text) plays was synthesized from that same text, never
\* the cached audio of a different text.
C30_CachedAudioOfSameText == \A audio \in tts.playing : audio.audio = audio.text

====
